---------------------------- MODULE Spec2Model ----------------------------
(***************************************************************************)
(* Model of get_full_test_cases_from_api.py: the shared-step expander      *)
(* (human_readable_steps_with_shared_steps_expanded, expand_shared_step,   *)
(* shared_step_name_candidate_iterator, extract_shared_step_name), the     *)
(* step counter (calculate_total_step_count) and the orchestration of      *)
(* _main with the paginated fetches of CustomMagicPodAPIClient.            *)
(*                                                                         *)
(* A Python str is a sequence of one-character strings.  The six Japanese  *)
(* characters of the second marker prefix are written "U5171", "U6709",    *)
(* "U30B9", "U30C6", "U30C3", "U30D7" (their code points): each is one     *)
(* element of the sequence, that is, one character.                        *)
(***************************************************************************)
EXTENDS Naturals, Sequences, FiniteSets

VARIABLES
    shared_step_name_map, \* _main: name -> shared step record
    test_cases,           \* _main: the fetched test cases, updated in place
    tc,                   \* _main: index of the test case of the for loop
    stack,                \* the call stack of the recursive expander
    pc,                   \* where the run stands
    stdout,               \* what print() has written
    server,               \* the remote project: numbers present, page size
    test_case_numbers,    \* _main's argument: <<"None">> or <<"list", numbers>>
    cursor,               \* min_shared_step_number / min_test_case_number
    numbers,              \* shared_step_numbers / test_case_numbers to fetch
    shared_steps,         \* the full shared steps fetched so far
    requests              \* every request issued so far, with its outcome

vars ==
    <<shared_step_name_map, test_cases, tc, stack, pc, stdout, server,
      test_case_numbers, cursor, numbers, shared_steps, requests>>

(***************************************************************************)
(* Bounds of the model.                                                    *)
(***************************************************************************)
\* Longest block of a test case, in lines.
MaxBlockLines == 2

\* Longest block of a test case under FairSpec, in lines.
MaxFairLines == 1

\* Deepest call stack of the expander before the interpreter gives up
\* (RecursionError); CPython's limit is far larger.
MaxDepth == 4

\* Largest shared-step or test-case number the remote project holds.
MaxNumber == 3

\* Largest page size of the remote service.
MaxPageSize == 2

(***************************************************************************)
(* Texts.                                                                  *)
(***************************************************************************)
\* "Login"
Login ==
    <<"L", "o", "g", "i", "n">>

\* "(2)"
Paren2 ==
    <<"(", "2", ")">>

\* "(email: a@b.com)"
ParenEmail ==
    <<"(", "e", "m", "a", "i", "l", ":", " ", "a", "@", "b", ".", "c", "o",
      "m", ")">>

\* "Ghost"
Ghost ==
    <<"G", "h", "o", "s", "t">>

\* "Loop"
Loop ==
    <<"L", "o", "o", "p">>

\* "Pong"
Pong ==
    <<"P", "o", "n", "g">>

\* "Outer"
Outer ==
    <<"O", "u", "t", "e", "r">>

\* "Enter username"
EnterUsername ==
    <<"E", "n", "t", "e", "r", " ", "u", "s", "e", "r", "n", "a", "m", "e">>

\* "Enter password"
EnterPassword ==
    <<"E", "n", "t", "e", "r", " ", "p", "a", "s", "s", "w", "o", "r", "d">>

\* "Click submit"
ClickSubmit ==
    <<"C", "l", "i", "c", "k", " ", "s", "u", "b", "m", "i", "t">>

\* "Do thing"
DoThing ==
    <<"D", "o", " ", "t", "h", "i", "n", "g">>

\* "Enter code"
EnterCode ==
    <<"E", "n", "t", "e", "r", " ", "c", "o", "d", "e">>

SP == <<" ">>

LF == <<"\n">>

CRLF == <<"\r", "\n">>

\* "Login (2)"
Login2 == Login \o SP \o Paren2

\* "Login (2) (email: a@b.com)"
Login2Email == Login2 \o SP \o ParenEmail

(***************************************************************************)
(* str methods.                                                            *)
(***************************************************************************)
Min(S) == CHOOSE x \in S : \A y \in S : x <= y

\* The whitespace str.strip() removes, among the characters of the model.
IsSpace(c) == c \in {" ", "\t", "\n", "\r"}

\* Number of leading whitespace characters of s.
LeadingSpaces(s) ==
    LET stops == {k \in 1..Len(s) : ~IsSpace(s[k])}
    IN  IF stops = {} THEN Len(s) ELSE Min(stops) - 1

\* Number of trailing whitespace characters of s.
TrailingSpaces(s) ==
    LET stops == {k \in 1..Len(s) : ~IsSpace(s[k])}
    IN  IF stops = {} THEN Len(s)
        ELSE Len(s) - (CHOOSE x \in stops : \A y \in stops : y <= x)

\* s.lstrip()
lstrip(s) == SubSeq(s, LeadingSpaces(s) + 1, Len(s))

\* s.strip()
strip(s) ==
    IF LeadingSpaces(s) = Len(s) THEN <<>>
    ELSE SubSeq(s, LeadingSpaces(s) + 1, Len(s) - TrailingSpaces(s))

\* s.startswith(prefix)
startswith(s, prefix) ==
    /\ Len(prefix) <= Len(s)
    /\ SubSeq(s, 1, Len(prefix)) = prefix

\* s.replace(old, "", 1): the first occurrence of old removed.
replace_first(s, old) ==
    LET at == {k \in 1..(Len(s) + 1 - Len(old)) :
                   SubSeq(s, k, k + Len(old) - 1) = old}
    IN  IF at = {} THEN s
        ELSE SubSeq(s, 1, Min(at) - 1)
             \o SubSeq(s, Min(at) + Len(old), Len(s))

\* s.splitlines(keepends) from position i on: a line ends at "\n", at "\r"
\* or at "\r\n", and no empty line follows the last terminator.
RECURSIVE SplitFrom(_, _, _)
SplitFrom(s, i, keepends) ==
    IF i > Len(s) THEN <<>>
    ELSE LET brk == {k \in i..Len(s) : s[k] \in {"\n", "\r"}}
         IN  IF brk = {} THEN <<SubSeq(s, i, Len(s))>>
             ELSE LET k == Min(brk)
                      e == IF s[k] = "\r" /\ k < Len(s) /\ s[k + 1] = "\n"
                           THEN k + 1 ELSE k
                  IN  <<SubSeq(s, i, IF keepends THEN e ELSE k - 1)>>
                      \o SplitFrom(s, e + 1, keepends)

\* s.splitlines()
splitlines(s) == SplitFrom(s, 1, FALSE)

\* "".join(parts)
RECURSIVE join(_)
join(parts) ==
    IF parts = <<>> THEN <<>> ELSE Head(parts) \o join(Tail(parts))

\* " " * n
Spaces(n) == [k \in 1..n |-> " "]

\* textwrap.indent with a predicate that takes every line: a slip that also
\* indents the lines of whitespace.
textwrap_indent_every(text, prefix) ==
    LET lines == SplitFrom(text, 1, TRUE)
    IN  join([k \in 1..Len(lines) |-> prefix \o lines[k]])

\* textwrap.indent(text, prefix): the prefix goes before every line that
\* does not consist solely of whitespace.
textwrap_indent(text, prefix) ==
    LET lines == SplitFrom(text, 1, TRUE)
    IN  join([k \in 1..Len(lines) |->
                 IF strip(lines[k]) # <<>> THEN prefix \o lines[k]
                 ELSE lines[k]])

(***************************************************************************)
(* extract_shared_step_name                                                *)
(***************************************************************************)
\* "Shared step:"
PrefixEn ==
    <<"S", "h", "a", "r", "e", "d", " ", "s", "t", "e", "p", ":">>

\* The Japanese marker followed by ":".
PrefixJa ==
    <<"U5171", "U6709", "U30B9", "U30C6", "U30C3", "U30D7", ":">>

prefixes == <<PrefixEn, PrefixJa>>

\* The extraction without the strip: a slip that misses indented references.
extract_unstripped(step) ==
    LET hit == {k \in 1..Len(prefixes) : startswith(step, prefixes[k])}
    IN  IF hit = {} THEN <<>> ELSE replace_first(step, prefixes[Min(hit)])

extract_shared_step_name(step) ==
    LET s == strip(step)
        hit == {k \in 1..Len(prefixes) : startswith(s, prefixes[k])}
    IN  IF hit = {} THEN <<>> ELSE replace_first(s, prefixes[Min(hit)])

(***************************************************************************)
(* shared_step_name_candidate_iterator                                     *)
(***************************************************************************)
\* Where the ")" of a match of \(.*\)$ sits in s, or 0: "$" matches at the
\* end of s and before a newline that ends s.
PatternClose(s) ==
    IF Len(s) >= 1 /\ s[Len(s)] = ")" THEN Len(s)
    ELSE IF Len(s) >= 2 /\ s[Len(s)] = "\n" /\ s[Len(s) - 1] = ")"
         THEN Len(s) - 1
         ELSE 0

\* The positions of a "(" from which \(.*\)$ matches: "." is any character
\* but a newline.
PatternStarts(s) ==
    {i \in 1..(PatternClose(s) - 1) :
        /\ s[i] = "("
        /\ \A k \in (i + 1)..(PatternClose(s) - 1) : s[k] # "\n"}

\* re.search(pattern, s)
re_search(s) == PatternClose(s) > 0 /\ PatternStarts(s) # {}

\* re.sub(pattern, "", s): the search takes the leftmost match, and ".*" is
\* greedy, so the match runs from the first such "(" to the closing ")".
re_sub(s) ==
    IF re_search(s)
    THEN SubSeq(s, 1, Min(PatternStarts(s)) - 1)
         \o SubSeq(s, PatternClose(s) + 1, Len(s))
    ELSE s

\* The candidates yielded after the first one.
RECURSIVE CandidatesAfter(_)
CandidatesAfter(current_text) ==
    IF re_search(current_text)
    THEN <<strip(re_sub(current_text))>>
         \o CandidatesAfter(re_sub(current_text))
    ELSE <<>>

shared_step_name_candidate_iterator(shared_step_name) ==
    <<strip(shared_step_name)>> \o CandidatesAfter(shared_step_name)

(***************************************************************************)
(* expand_shared_step: the candidate it settles on.                        *)
(***************************************************************************)
\* The loop keeping the last match instead of returning on the first: a
\* slip that prefers the least specific name.
LastCandidateIn(candidates, name_map) ==
    LET found == {k \in 1..Len(candidates) :
                     candidates[k] \in DOMAIN name_map}
    IN  IF found = {} THEN 0
        ELSE CHOOSE k \in found : \A j \in found : j <= k

\* Index of the first candidate that is a key of the map, or 0 when the
\* loop runs out (return "").
FirstCandidateIn(candidates, name_map) ==
    LET found == {k \in 1..Len(candidates) :
                     candidates[k] \in DOMAIN name_map}
    IN  IF found = {} THEN 0 ELSE Min(found)

\* The indent the expander passes for a reference line.
IndentOf(step) == 2 + Len(step) - Len(lstrip(step))

\* res += step: a slip that drops the line terminator.
EmitStep_NoTerminator(res, step) == res \o step

\* res += f"{step}\n"
EmitStep(res, step) == res \o step \o LF

(***************************************************************************)
(* calculate_total_step_count                                              *)
(***************************************************************************)
\* The count without the filter: a slip that counts reference lines too.
count_all_lines(expanded_human_readable_steps) ==
    Len(splitlines(expanded_human_readable_steps))

calculate_total_step_count(expanded_human_readable_steps) ==
    LET lines == splitlines(expanded_human_readable_steps)
    IN  Cardinality({k \in 1..Len(lines) :
                        extract_shared_step_name(lines[k]) = <<>>})


(***************************************************************************)
(* The data of the model: shared steps and step lines.                     *)
(***************************************************************************)
\* "Shared step: <name>"
RefEn(name) == PrefixEn \o SP \o name

\* "Enter username\nEnter password"
LoginSteps == EnterUsername \o LF \o EnterPassword

\* "Enter username\r\n\n  \nEnter password\n": a blank and a whitespace-only
\* line between the two steps.
LoginStepsBlank ==
    EnterUsername \o CRLF \o LF \o SP \o SP \o LF \o EnterPassword \o LF

\* "Click submit\n  Shared step: Login (2)"
OuterSteps == ClickSubmit \o LF \o SP \o SP \o RefEn(Login2)

\* "Do thing\nShared step: Loop": a shared step that refers to itself.
LoopSteps == DoThing \o LF \o RefEn(Loop)

\* "Shared step: Pong" and " Shared step: Loop (1)": each refers to the other.
LoopToPongSteps == RefEn(Pong)

PongSteps == SP \o RefEn(Loop \o SP \o <<"(", "1", ")">>)

SharedStep(number, name, steps) ==
    [number |-> number, name |-> name, human_readable_steps |-> steps]

\* The shared steps a project may hold, as get_full_shared_steps returns them.
SharedStepLists ==
    { <<>>,
      <<SharedStep(1, Login, LoginSteps)>>,
      <<SharedStep(1, Login, LoginSteps), SharedStep(2, Login2, EnterCode)>>,
      <<SharedStep(1, Login, LoginStepsBlank), SharedStep(2, Outer, OuterSteps)>>,
      <<SharedStep(1, Loop, LoopSteps)>>,
      <<SharedStep(1, Loop, LoopToPongSteps), SharedStep(2, Pong, PongSteps),
        SharedStep(3, Login, LoginSteps)>> }

\* The lines a test case's block is made of.
StepLines ==
    { DoThing,
      RefEn(Ghost), RefEn(Login2), RefEn(Login2Email),
      SP \o <<"\t">> \o RefEn(Login),
      PrefixEn,
      PrefixJa \o Outer,
      RefEn(Loop) }

\* A block: its lines, each followed by the terminator, the last one only
\* when final.
BlockText(lines, terminator, final) ==
    join([k \in 1..Len(lines) |->
             IF k < Len(lines) \/ final THEN lines[k] \o terminator
             ELSE lines[k]])

\* The blocks of at most max lines.
Blocks(max) ==
    { BlockText(lines, e[1], e[2]) :
        lines \in UNION {[1..n -> StepLines] : n \in 0..max},
        e \in {<<LF, TRUE>>, <<LF, FALSE>>, <<CRLF, TRUE>>} }

\* A test case as fetched: total_step_count is a key _main adds later.
TestCase(number, steps) ==
    [number |-> number, human_readable_steps |-> steps]

(***************************************************************************)
(* _main, from the dict comprehension on: the expansion of each test case. *)
(***************************************************************************)
\* {shared_step["name"]: shared_step for shared_step in shared_steps}: a
\* later record replaces an earlier one of the same name.
NameMap(steps) ==
    [n \in {steps[k].name : k \in 1..Len(steps)} |->
        steps[CHOOSE k \in 1..Len(steps) :
                 /\ steps[k].name = n
                 /\ \A j \in 1..Len(steps) : steps[j].name = n => j <= k]]

\* A frame of human_readable_steps_with_shared_steps_expanded: its argument,
\* the lines of the for loop, how many of them are done, and res; with the
\* locals of the expand_shared_step call that made it (none for _main's
\* call): the candidate name and the indent.
Frame(text, name, indent) ==
    [human_readable_steps |-> text, steps |-> splitlines(text), i |-> 0,
     res |-> <<>>, shared_step_name_candidate |-> name, indent |-> indent]

Top == stack[Len(stack)]

\* The line the loop of the top frame takes next.
NextStep == Top.steps[Top.i + 1]

Candidates(step) ==
    shared_step_name_candidate_iterator(extract_shared_step_name(step))

\* Whether expand_shared_step finds a shared step for this line.
Resolves(step) ==
    /\ extract_shared_step_name(step) # <<>>
    /\ FirstCandidateIn(Candidates(step), shared_step_name_map) # 0

ResolvedName(step) ==
    Candidates(step)[FirstCandidateIn(Candidates(step), shared_step_name_map)]

Running == pc = "expand" /\ stack # <<>> /\ Top.i < Len(Top.steps)

Advanced == [Top EXCEPT !.i = @ + 1, !.res = EmitStep(@, NextStep)]

UNCHANGED_fetch ==
    UNCHANGED <<server, test_case_numbers, cursor, numbers, shared_steps,
                requests>>

\* _main calls the expander for test case tc.
BeginTestCase ==
    /\ pc = "expand" /\ stack = <<>> /\ tc <= Len(test_cases)
    /\ stack' = <<Frame(test_cases[tc].human_readable_steps, <<>>, 0)>>
    /\ UNCHANGED <<shared_step_name_map, test_cases, tc, pc, stdout>>
    /\ UNCHANGED_fetch

\* A lookup that raises on a reference without a shared step (KeyError), a
\* slip that ends the run there.
StepLeaf_RaiseOnUnresolved ==
    /\ Running /\ ~Resolves(NextStep)
    /\ IF extract_shared_step_name(NextStep) # <<>>
       THEN pc' = "exit1" /\ UNCHANGED stack
       ELSE /\ stack' = [stack EXCEPT ![Len(stack)] = Advanced]
            /\ UNCHANGED pc
    /\ UNCHANGED <<shared_step_name_map, test_cases, tc, stdout>>
    /\ UNCHANGED_fetch

\* One turn of the loop for a line that expands to nothing: no reference, or
\* a reference no candidate of which is a key.
StepLeaf ==
    /\ Running /\ ~Resolves(NextStep)
    /\ stack' = [stack EXCEPT ![Len(stack)] = Advanced]
    /\ UNCHANGED <<shared_step_name_map, test_cases, tc, pc, stdout>>
    /\ UNCHANGED_fetch

\* The call with a visited-set guard: a shared step that is on the stack
\* already is not expanded again.
StepCall_VisitedGuard ==
    /\ Running /\ Resolves(NextStep) /\ Len(stack) < MaxDepth
    /\ IF \E k \in 1..Len(stack) :
              stack[k].shared_step_name_candidate = ResolvedName(NextStep)
       THEN stack' = [stack EXCEPT ![Len(stack)] = Advanced]
       ELSE stack' = Append([stack EXCEPT ![Len(stack)] = Advanced],
                            Frame(shared_step_name_map[ResolvedName(NextStep)]
                                      .human_readable_steps,
                                  ResolvedName(NextStep), IndentOf(NextStep)))
    /\ UNCHANGED <<shared_step_name_map, test_cases, tc, pc, stdout>>
    /\ UNCHANGED_fetch

\* One turn of the loop for a reference that resolves: the line is emitted
\* and expand_shared_step calls the expander on the shared step's own steps.
StepCall ==
    /\ Running /\ Resolves(NextStep) /\ Len(stack) < MaxDepth
    /\ stack' = Append([stack EXCEPT ![Len(stack)] = Advanced],
                       Frame(shared_step_name_map[ResolvedName(NextStep)]
                                 .human_readable_steps,
                             ResolvedName(NextStep), IndentOf(NextStep)))
    /\ UNCHANGED <<shared_step_name_map, test_cases, tc, pc, stdout>>
    /\ UNCHANGED_fetch

\* The same call with the stack full: RecursionError, which nothing catches.
RecursionExhausted ==
    /\ Running /\ Resolves(NextStep) /\ Len(stack) >= MaxDepth
    /\ pc' = "exhausted"
    /\ UNCHANGED <<shared_step_name_map, test_cases, tc, stack, stdout>>
    /\ UNCHANGED_fetch

\* What the caller's res becomes when expand_shared_step returns.
Returned(caller, callee) ==
    [caller EXCEPT
        !.res = @ \o textwrap_indent(callee.res, Spaces(callee.indent))]

\* A nested call returns: the caller appends the indented result.
Return ==
    /\ pc = "expand" /\ Len(stack) >= 2 /\ Top.i = Len(Top.steps)
    /\ stack' = [SubSeq(stack, 1, Len(stack) - 1)
                    EXCEPT ![Len(stack) - 1] = Returned(@, Top)]
    /\ UNCHANGED <<shared_step_name_map, test_cases, tc, pc, stdout>>
    /\ UNCHANGED_fetch

\* _main's call returns: the test case takes the expanded steps and its
\* total_step_count.
FinishTestCase ==
    /\ pc = "expand" /\ Len(stack) = 1 /\ Top.i = Len(Top.steps)
    /\ test_cases' =
           [test_cases EXCEPT ![tc] =
               [number |-> @.number,
                human_readable_steps |-> Top.res,
                total_step_count |-> calculate_total_step_count(Top.res)]]
    /\ stack' = <<>>
    /\ tc' = tc + 1
    /\ UNCHANGED <<shared_step_name_map, pc, stdout>>
    /\ UNCHANGED_fetch

\* print(json.dumps(test_cases))
PrintJson ==
    /\ pc = "expand" /\ stack = <<>> /\ tc > Len(test_cases)
    /\ stdout' = Append(stdout, test_cases)
    /\ pc' = "done"
    /\ UNCHANGED <<shared_step_name_map, test_cases, tc, stack>>
    /\ UNCHANGED_fetch

(***************************************************************************)
(* Spec: _main with the fetches done, for one test case and every project  *)
(* of SharedStepLists.                                                     *)
(***************************************************************************)
\* _main at its for loop, with one test case of at most max lines.
Fetched(max) ==
    /\ shared_steps \in SharedStepLists
    /\ shared_step_name_map = NameMap(shared_steps)
    /\ test_cases \in {<<TestCase(1, b)>> : b \in Blocks(max)}
    /\ tc = 1
    /\ stack = <<>>
    /\ pc = "expand"
    /\ stdout = <<>>
    /\ server = [shared_steps |-> {}, test_cases |-> {}, page_size |-> 1]
    /\ test_case_numbers = <<"list", <<1>>>>
    /\ cursor = 1
    /\ numbers = <<>>
    /\ requests = <<>>

Init == Fetched(MaxBlockLines)

Next ==
    \/ BeginTestCase
    \/ StepLeaf
    \/ StepCall
    \/ RecursionExhausted
    \/ Return
    \/ FinishTestCase
    \/ PrintJson

Spec == Init /\ [][Next]_vars

(***************************************************************************)
(* The remote project and the fetches of CustomMagicPodAPIClient.          *)
(***************************************************************************)
\* The full shared step the service holds under a number.
SharedStepRecord(n) ==
    CASE n = 1 -> SharedStep(1, Login, LoginSteps)
      [] n = 2 -> SharedStep(2, Outer, OuterSteps)
      [] n = 3 -> SharedStep(3, Loop, LoopSteps)
      [] OTHER -> SharedStep(n, Ghost, DoThing)

\* The full test case the service holds under a number.
TestCaseRecord(n) ==
    CASE n = 1 -> TestCase(1, RefEn(Login) \o LF \o ClickSubmit)
      [] n = 2 -> TestCase(2, SP \o RefEn(Outer) \o CRLF \o RefEn(Ghost))
      [] n = 3 -> TestCase(3, RefEn(Loop))
      [] OTHER -> TestCase(n, DoThing)

\* The numbers of present, from min_number on, in ascending order.
RECURSIVE Ascending(_, _)
Ascending(present, min_number) ==
    LET rest == {n \in present : n >= min_number}
    IN  IF rest = {} THEN <<>>
        ELSE <<Min(rest)>> \o Ascending(present, Min(rest) + 1)

\* One page of a list request.
Page(present, min_number) ==
    LET all == Ascending(present, min_number)
    IN  SubSeq(all, 1, IF Len(all) < server.page_size THEN Len(all)
                       ELSE server.page_size)

\* The cursor set to the last number itself: a slip that asks for the last
\* item again.
NextCursor_LastNumber(page) == page[Len(page)]

\* min_shared_step_number = shared_steps[-1]["number"] + 1
NextCursor(page) == page[Len(page)] + 1

Request(kind, arg, error, items) ==
    [kind |-> kind, arg |-> arg, error |-> error, items |-> items]

None == <<"None">>

\* _main, on an error result: logger.error and exit(1).
ExitOne == pc' = "exit1"

\* get_full_shared_steps, one turn of the listing loop.
ListSharedSteps ==
    /\ pc = "list_shared_steps"
    /\ \E error \in BOOLEAN :
         LET page == Page(server.shared_steps, cursor)
         IN  /\ requests' = Append(requests,
                     Request("list_shared_steps", cursor, error,
                             IF error THEN <<>> ELSE page))
             /\ IF error
                THEN ExitOne /\ UNCHANGED <<cursor, numbers>>
                ELSE IF Len(page) <= 0
                     THEN /\ pc' = "get_shared_step"
                          /\ UNCHANGED <<cursor, numbers>>
                     ELSE /\ numbers' = numbers \o page
                          /\ cursor' = NextCursor(page)
                          /\ UNCHANGED pc
    /\ UNCHANGED <<shared_step_name_map, test_cases, tc, stack, stdout,
                   server, test_case_numbers, shared_steps>>

\* get_full_shared_steps, one turn of the loop over shared_step_numbers.
GetSharedStep ==
    /\ pc = "get_shared_step" /\ Len(shared_steps) < Len(numbers)
    /\ \E error \in BOOLEAN :
         LET n == numbers[Len(shared_steps) + 1]
         IN  /\ requests' = Append(requests,
                     Request("get_shared_step", n, error, <<>>))
             /\ IF error
                THEN ExitOne /\ UNCHANGED shared_steps
                ELSE /\ shared_steps' =
                            Append(shared_steps, SharedStepRecord(n))
                     /\ UNCHANGED pc
    /\ UNCHANGED <<shared_step_name_map, test_cases, tc, stack, stdout,
                   server, test_case_numbers, cursor, numbers>>

\* get_full_shared_steps returns its data and _main calls
\* get_full_test_cases.
SharedStepsFetched ==
    /\ pc = "get_shared_step" /\ Len(shared_steps) = Len(numbers)
    /\ IF test_case_numbers = None
       THEN pc' = "list_test_cases" /\ numbers' = <<>>
       ELSE pc' = "get_test_case" /\ numbers' = test_case_numbers[2]
    /\ cursor' = 1
    /\ UNCHANGED <<shared_step_name_map, test_cases, tc, stack, stdout,
                   server, test_case_numbers, shared_steps, requests>>

\* get_full_test_cases, one turn of the listing loop.
ListTestCases ==
    /\ pc = "list_test_cases"
    /\ \E error \in BOOLEAN :
         LET page == Page(server.test_cases, cursor)
         IN  /\ requests' = Append(requests,
                     Request("list_test_cases", cursor, error,
                             IF error THEN <<>> ELSE page))
             /\ IF error
                THEN ExitOne /\ UNCHANGED <<cursor, numbers>>
                ELSE IF Len(page) <= 0
                     THEN /\ pc' = "get_test_case"
                          /\ UNCHANGED <<cursor, numbers>>
                     ELSE /\ numbers' = numbers \o page
                          /\ cursor' = NextCursor(page)
                          /\ UNCHANGED pc
    /\ UNCHANGED <<shared_step_name_map, test_cases, tc, stack, stdout,
                   server, test_case_numbers, shared_steps>>

\* The loop going on after a failed request: a slip that keeps an empty
\* test case in place of the missing one.
GetTestCase_IgnoreError ==
    /\ pc = "get_test_case" /\ Len(test_cases) < Len(numbers)
    /\ LET n == numbers[Len(test_cases) + 1]
       IN  \E error \in {e \in BOOLEAN : n \notin server.test_cases => e} :
             /\ requests' = Append(requests,
                     Request("get_test_case", n, error, <<>>))
             /\ test_cases' =
                    Append(test_cases,
                           IF error THEN TestCase(n, <<>>)
                           ELSE TestCaseRecord(n))
             /\ UNCHANGED pc
    /\ UNCHANGED <<shared_step_name_map, tc, stack, stdout, server,
                   test_case_numbers, cursor, numbers, shared_steps>>

\* get_full_test_cases, one turn of the loop over test_case_numbers: the
\* service has no test case to return for a number it does not hold.
GetTestCase ==
    /\ pc = "get_test_case" /\ Len(test_cases) < Len(numbers)
    /\ LET n == numbers[Len(test_cases) + 1]
       IN  \E error \in {e \in BOOLEAN : n \notin server.test_cases => e} :
             /\ requests' = Append(requests,
                     Request("get_test_case", n, error, <<>>))
             /\ IF error
                THEN ExitOne /\ UNCHANGED test_cases
                ELSE /\ test_cases' = Append(test_cases, TestCaseRecord(n))
                     /\ UNCHANGED pc
    /\ UNCHANGED <<shared_step_name_map, tc, stack, stdout, server,
                   test_case_numbers, cursor, numbers, shared_steps>>

\* get_full_test_cases returns its data and _main builds the name map.
TestCasesFetched ==
    /\ pc = "get_test_case" /\ Len(test_cases) = Len(numbers)
    /\ shared_step_name_map' = NameMap(shared_steps)
    /\ pc' = "expand"
    /\ UNCHANGED <<test_cases, tc, stack, stdout, server, test_case_numbers,
                   cursor, numbers, shared_steps, requests>>

(***************************************************************************)
(* MainSpec: a whole run of _main against every project of the bounds.     *)
(***************************************************************************)
MainInit ==
    /\ server \in [shared_steps : SUBSET (1..MaxNumber),
                   test_cases : SUBSET (1..MaxNumber),
                   page_size : 1..MaxPageSize]
    /\ test_case_numbers \in
           {None, <<"list", <<1>>>>, <<"list", <<2, 1>>>>,
            <<"list", <<3, MaxNumber + 1>>>>}
    /\ pc = "list_shared_steps"
    /\ cursor = 1
    /\ numbers = <<>>
    /\ shared_steps = <<>>
    /\ test_cases = <<>>
    /\ shared_step_name_map = NameMap(<<>>)
    /\ tc = 1
    /\ stack = <<>>
    /\ stdout = <<>>
    /\ requests = <<>>

MainNext ==
    \/ ListSharedSteps
    \/ GetSharedStep
    \/ SharedStepsFetched
    \/ ListTestCases
    \/ GetTestCase
    \/ TestCasesFetched
    \/ BeginTestCase
    \/ StepLeaf
    \/ StepCall
    \/ RecursionExhausted
    \/ Return
    \/ FinishTestCase
    \/ PrintJson

MainSpec == MainInit /\ [][MainNext]_vars

(***************************************************************************)
(* Vocabulary of the properties.                                           *)
(***************************************************************************)
\* A reference line: its trimmed content begins with a marker prefix.
IsReferenceLine(step) ==
    \E k \in 1..Len(prefixes) : startswith(strip(step), prefixes[k])

\* The trimmed content of a reference line after its marker prefix.
ReferenceText(step) ==
    LET s == strip(step)
        k == CHOOSE j \in 1..Len(prefixes) : startswith(s, prefixes[j])
    IN  SubSeq(s, Len(prefixes[k]) + 1, Len(s))

\* The candidate names of a reference line, as the expander tries them.
CandidateNames(step) ==
    shared_step_name_candidate_iterator(ReferenceText(step))

\* A reference line no candidate name of which is a key of the map.
UnresolvedReference(step) ==
    /\ IsReferenceLine(step)
    /\ \A k \in 1..Len(CandidateNames(step)) :
           CandidateNames(step)[k] \notin DOMAIN shared_step_name_map

NoReferenceLine(text) ==
    \A k \in 1..Len(splitlines(text)) : ~IsReferenceLine(splitlines(text)[k])

\* The lines, each followed by "\n".
JoinLF(lines) == join([k \in 1..Len(lines) |-> lines[k] \o LF])

WhitespaceOnly(line) == \A k \in 1..Len(line) : IsSpace(line[k])

EndsWith(s, tail) ==
    /\ Len(tail) <= Len(s)
    /\ SubSeq(s, Len(s) - Len(tail) + 1, Len(s)) = tail

\* _main's call of the expander has run its loop and is about to return res.
Returning == pc = "expand" /\ Len(stack) = 1 /\ Top.i = Len(Top.steps)

\* A nested call has run its loop and is about to return to its caller.
ReturningNested == pc = "expand" /\ Len(stack) >= 2 /\ Top.i = Len(Top.steps)

Caller == stack[Len(stack) - 1]

\* The reference line the caller of the top frame is expanding.
CallerStep == Caller.steps[Caller.i]

\* The top frame as it is after the step.
TopAfter == stack'[Len(stack)]

\* The step is one turn of the top frame's loop that emits its line and
\* appends nothing else to res.
TurnAppendsLineOnly ==
    /\ pc' = "expand"
    /\ Len(stack') = Len(stack)
    /\ TopAfter.res = Top.res \o NextStep \o LF
    /\ TopAfter.i = Top.i + 1
    /\ TopAfter.steps = Top.steps

\* The step is one turn of the top frame's loop that emits its line and
\* calls the expander on the shared step of this name.
TurnCalls(name) ==
    /\ pc' = "expand"
    /\ Len(stack') = Len(stack) + 1
    /\ TopAfter.res = Top.res \o NextStep \o LF
    /\ TopAfter.i = Top.i + 1
    /\ TopAfter.steps = Top.steps
    /\ stack'[Len(stack')].shared_step_name_candidate = name
    /\ stack'[Len(stack')].human_readable_steps
           = shared_step_name_map[name].human_readable_steps

\* The test case has been expanded and counted.
Counted(t) == "total_step_count" \in DOMAIN test_cases[t]

(***************************************************************************)
(* C1: the candidates of "Login (2) (email: a@b.com)" are the full string, *)
(* "Login (2)" and "Login", in this order, and with both "Login" and       *)
(* "Login (2)" in the table a reference of that name expands the shared    *)
(* step "Login (2)".                                                       *)
(***************************************************************************)
C1_ResolvesToLogin2 ==
    \A k \in 2..Len(stack) :
        LET step == stack[k - 1].steps[stack[k - 1].i]
        IN  ( /\ IsReferenceLine(step)
              /\ strip(ReferenceText(step)) = Login2Email
              /\ {Login, Login2} \subseteq DOMAIN shared_step_name_map )
            => /\ CandidateNames(step) = <<Login2Email, Login2, Login>>
               /\ stack[k].shared_step_name_candidate = Login2

(***************************************************************************)
(* C2: the expander uses the first candidate, in generation order and the  *)
(* full trimmed name first, that is a key of the table, and appends        *)
(* nothing when no candidate is a key; with only "Login" in the table the  *)
(* reference "Login (2)" expands the shared step "Login".  (The call is    *)
(* cut short only when the stack is full.)                                 *)
(***************************************************************************)
C2_Turn ==
    (Running /\ IsReferenceLine(NextStep)) =>
        LET cands == CandidateNames(NextStep)
            keys == {k \in 1..Len(cands) :
                        cands[k] \in DOMAIN shared_step_name_map}
        IN  /\ cands[1] = strip(ReferenceText(NextStep))
            /\ keys = {} => TurnAppendsLineOnly
            /\ keys # {} =>
                 \/ pc' = "exhausted"
                 \/ \E k \in keys :
                      /\ \A j \in keys : k <= j
                      /\ TurnCalls(cands[k])
            /\ ( /\ DOMAIN shared_step_name_map = {Login}
                 /\ cands[1] = Login2
                 /\ Len(stack) < MaxDepth ) => TurnCalls(Login)

C2_FirstCandidateWins == [][C2_Turn]_vars

C2_Witness ==
    /\ Len(stack) >= 2
    /\ DOMAIN shared_step_name_map = {Login}
    /\ strip(ReferenceText(CallerStep)) = Login2
    /\ Top.shared_step_name_candidate = Login

(***************************************************************************)
(* C3, as claimed: for a block without reference lines the expander        *)
(* returns the block itself, also when the block does not end with a line  *)
(* terminator.                                                             *)
(***************************************************************************)
C3_Identity ==
    (Returning /\ NoReferenceLine(Top.human_readable_steps))
        => Top.res = Top.human_readable_steps

\* Every line of the text ends with "\n" and with nothing else.
TerminatedByLF(text) ==
    /\ \A k \in 1..Len(text) : text[k] # "\r"
    /\ text = <<>> \/ text[Len(text)] = "\n"

(***************************************************************************)
(* C3, amended: for a block without reference lines the expander returns   *)
(* the lines of the block, in order, each followed by "\n"; the result is  *)
(* the block itself exactly when the block is empty or each of its lines,  *)
(* the last one included, ends with "\n".                                  *)
(***************************************************************************)
C3_LinesKept ==
    (Returning /\ NoReferenceLine(Top.human_readable_steps))
        => /\ Top.res = JoinLF(splitlines(Top.human_readable_steps))
           /\ Top.res = Top.human_readable_steps
                  <=> TerminatedByLF(Top.human_readable_steps)

C3_Witness ==
    /\ Returning
    /\ Top.human_readable_steps = DoThing \o LF \o DoThing
    /\ Top.res = DoThing \o LF \o DoThing \o LF

\* Each line of the text with n spaces before it: every line, or only the
\* lines that do not consist solely of whitespace.
PrefixLines(text, n, every) ==
    LET lines == SplitFrom(text, 1, TRUE)
    IN  join([k \in 1..Len(lines) |->
                 IF every \/ ~WhitespaceOnly(lines[k])
                 THEN Spaces(n) \o lines[k] ELSE lines[k]])

\* A turn of the loop emits the block's line unchanged; a return appends,
\* right after the reference line, the lines of the shared step's expanded
\* steps behind 2 + (leading whitespace of the reference line) spaces.
C4_Step(every) ==
    /\ (Running /\ pc' = "expand") =>
          /\ TopAfter.res = Top.res \o NextStep \o LF
          /\ TopAfter.i = Top.i + 1
          /\ TopAfter.steps = Top.steps
    /\ ReturningNested =>
          /\ EndsWith(Caller.res, CallerStep \o LF)
          /\ Len(stack') = Len(stack) - 1
          /\ stack'[Len(stack')].res =
                 Caller.res
                 \o PrefixLines(Top.res, 2 + LeadingSpaces(CallerStep), every)
          /\ stack'[Len(stack')].i = Caller.i
          /\ stack'[Len(stack')].steps = Caller.steps

(***************************************************************************)
(* C4, as claimed: the expansion emits the block's lines unchanged and in  *)
(* order, and right after each reference line that resolves it emits every *)
(* line of the shared step's recursively expanded steps, blank and         *)
(* whitespace-only lines included, each behind exactly 2 + (leading        *)
(* whitespace characters of the reference line) more spaces.               *)
(***************************************************************************)
C4_EveryLineIndented == [][C4_Step(TRUE)]_vars

(***************************************************************************)
(* C4, amended: as claimed, but only the lines that do not consist solely  *)
(* of whitespace get the 2 + (leading whitespace) spaces; a blank or       *)
(* whitespace-only line of the expanded steps is emitted as it is.         *)
(***************************************************************************)
C4_NonBlankLinesIndented == [][C4_Step(FALSE)]_vars

\* " \tShared step: Login" over a shared step with a blank and a
\* whitespace-only line: four spaces before the two steps, none before the
\* other two lines.
C4_Witness ==
    /\ Returning
    /\ Top.human_readable_steps = SP \o <<"\t">> \o RefEn(Login)
    /\ Top.res =
           SP \o <<"\t">> \o RefEn(Login) \o LF
           \o Spaces(4) \o EnterUsername \o LF
           \o LF
           \o SP \o SP \o LF
           \o Spaces(4) \o EnterPassword \o LF

ExpandedLines(t) == splitlines(test_cases[t].human_readable_steps)

(***************************************************************************)
(* C5, as claimed: the count never includes a reference line: every line   *)
(* whose trimmed content begins with a marker prefix, the prefix alone     *)
(* included, extracts to a non-empty name, so the count is the number of   *)
(* lines that do not begin with a marker prefix.                           *)
(***************************************************************************)
C5_NoReferenceLineCounted ==
    \A t \in 1..Len(test_cases) : Counted(t) =>
        /\ \A k \in 1..Len(ExpandedLines(t)) :
               IsReferenceLine(ExpandedLines(t)[k])
                   => extract_shared_step_name(ExpandedLines(t)[k]) # <<>>
        /\ test_cases[t].total_step_count =
               Cardinality({k \in 1..Len(ExpandedLines(t)) :
                               ~IsReferenceLine(ExpandedLines(t)[k])})

\* The trimmed content of the line is a marker prefix and nothing more.
PrefixAlone(step) == \E k \in 1..Len(prefixes) : strip(step) = prefixes[k]

(***************************************************************************)
(* C5, amended: every line whose trimmed content begins with a marker      *)
(* prefix and goes on after it extracts to a non-empty name and is not     *)
(* counted; a line whose trimmed content is a marker prefix alone extracts *)
(* to the empty name and is counted; so the count is the number of lines   *)
(* that do not begin with a marker prefix or consist of one alone.         *)
(***************************************************************************)
C5_ReferenceLinesWithNameNotCounted ==
    \A t \in 1..Len(test_cases) : Counted(t) =>
        /\ \A k \in 1..Len(ExpandedLines(t)) :
               IsReferenceLine(ExpandedLines(t)[k]) =>
                   ( extract_shared_step_name(ExpandedLines(t)[k]) = <<>>
                         <=> PrefixAlone(ExpandedLines(t)[k]) )
        /\ test_cases[t].total_step_count =
               Cardinality({k \in 1..Len(ExpandedLines(t)) :
                               \/ ~IsReferenceLine(ExpandedLines(t)[k])
                               \/ PrefixAlone(ExpandedLines(t)[k])})

\* "Shared step:" alone and an indented reference, expanded and counted.
C5_Witness ==
    /\ Counted(1)
    /\ shared_step_name_map = NameMap(<<SharedStep(1, Login, LoginSteps)>>)
    /\ test_cases[1].human_readable_steps =
           PrefixEn \o LF
           \o SP \o <<"\t">> \o RefEn(Login) \o LF
           \o Spaces(4) \o EnterUsername \o LF
           \o Spaces(4) \o EnterPassword \o LF
    /\ test_cases[1].total_step_count = 3

\* "Shared step: Ghost\nDo thing"
GhostBlock == RefEn(Ghost) \o LF \o DoThing

\* _main's call for the block "Shared step: Ghost\nDo thing" with an empty
\* table returns and the test case gets this total_step_count.
GhostCounts(n) ==
    ( /\ Returning
      /\ Top.human_readable_steps = GhostBlock
      /\ DOMAIN shared_step_name_map = {} )
    => ( /\ "total_step_count" \in DOMAIN test_cases'[tc]
         /\ test_cases'[tc].total_step_count = n )

(***************************************************************************)
(* C6, as claimed: with an empty table and the block                       *)
(* "Shared step: Ghost\nDo thing" the total_step_count is 2.               *)
(***************************************************************************)
C6_GhostCountsTwo == [][GhostCounts(2)]_vars

(***************************************************************************)
(* C6, amended: with an empty table and the block                          *)
(* "Shared step: Ghost\nDo thing" the total_step_count is 1: the           *)
(* unresolved reference line is not counted.                               *)
(***************************************************************************)
C6_GhostCountsOne == [][GhostCounts(1)]_vars

C6_Witness ==
    /\ Counted(1)
    /\ DOMAIN shared_step_name_map = {}
    /\ test_cases[1].human_readable_steps = GhostBlock \o LF
    /\ test_cases[1].total_step_count = 1

(***************************************************************************)
(* C7: a reference line no candidate name of which is a key of the table   *)
(* is emitted verbatim with nothing appended after it, raises no error,    *)
(* and leaves the loop to go on with the other lines of the block: a frame *)
(* none of whose lines so far resolves holds exactly these lines.          *)
(***************************************************************************)
C7_Turn == (Running /\ UnresolvedReference(NextStep)) => TurnAppendsLineOnly

C7_Frames ==
    \A k \in 1..Len(stack) :
        (\A j \in 1..stack[k].i :
             IsReferenceLine(stack[k].steps[j])
                 => UnresolvedReference(stack[k].steps[j]))
        => stack[k].res = JoinLF(SubSeq(stack[k].steps, 1, stack[k].i))

C7_UnresolvedLeftVerbatim == []C7_Frames /\ [][C7_Turn]_vars

C7_Witness ==
    /\ Returning
    /\ Top.human_readable_steps = GhostBlock
    /\ UnresolvedReference(Top.steps[1])
    /\ Top.res = RefEn(Ghost) \o LF \o DoThing \o LF

(***************************************************************************)
(* C8: once a request of a run of _main returns an error, no further       *)
(* request is issued, nothing is expanded, nothing is printed and the run  *)
(* ends with exit status 1; the JSON is printed only if every request      *)
(* succeeded.                                                              *)
(***************************************************************************)
C8_ErrorAbortsRun ==
    /\ \A k \in 1..Len(requests) : requests[k].error =>
          /\ k = Len(requests)
          /\ pc = "exit1"
          /\ stdout = <<>>
          /\ stack = <<>>
          /\ DOMAIN shared_step_name_map = {}
          /\ \A t \in 1..Len(test_cases) :
                 /\ ~Counted(t)
                 /\ test_cases[t] = TestCaseRecord(test_cases[t].number)
    /\ stdout # <<>> => \A k \in 1..Len(requests) : ~requests[k].error
    /\ pc = "exit1" => (requests # <<>> /\ requests[Len(requests)].error)

\* A test case was fetched and the request for the next one failed.
C8_Witness ==
    /\ pc = "exit1"
    /\ Len(test_cases) >= 1
    /\ requests[Len(requests)].kind = "get_test_case"
    /\ requests[Len(requests)].error

ListKinds == {"list_shared_steps", "list_test_cases"}

\* The listing loop was left after request k.
LeftLoop(k) ==
    \/ k < Len(requests) /\ requests[k + 1].kind # requests[k].kind
    \/ k = Len(requests) /\ pc # requests[k].kind

EmptyPage(r) == ~r.error /\ r.items = <<>>

\* The cursors of a listing loop: 1 first, then one past the number of the
\* last item of the page before, which was not empty; and the loop is left
\* on these responses.
Pagination(Ends(_)) ==
    /\ \A k \in 1..Len(requests) : requests[k].kind \in ListKinds =>
          /\ (k = 1 \/ requests[k - 1].kind # requests[k].kind)
                 => requests[k].arg = 1
          /\ (k > 1 /\ requests[k - 1].kind = requests[k].kind) =>
                 /\ ~requests[k - 1].error
                 /\ requests[k - 1].items # <<>>
                 /\ requests[k].arg =
                        requests[k - 1].items[Len(requests[k - 1].items)] + 1
          /\ LeftLoop(k) <=> Ends(requests[k])
    /\ test_case_numbers # None =>
           \A k \in 1..Len(requests) : requests[k].kind # "list_test_cases"

EndsOnErrorToo(r) == EmptyPage(r) \/ r.error

(***************************************************************************)
(* C9, as claimed: each listing loop starts with cursor 1, asks for the    *)
(* next page with the cursor one past the number of the last item of the   *)
(* page before, and an empty page is the sole signal that ends it: the     *)
(* loop stops for no other reason and no list request follows an empty     *)
(* page.                                                                   *)
(***************************************************************************)
C9_EmptyPageAloneEndsLoop == Pagination(EmptyPage)

(***************************************************************************)
(* C9, amended: as claimed, but the loop also stops when a list request    *)
(* returns an error (the fetch returns that error at once): it ends on an  *)
(* empty page or on an error response and for no other reason, and no list *)
(* request follows either.                                                 *)
(***************************************************************************)
C9_EmptyPageOrErrorEndsLoop == Pagination(EndsOnErrorToo)

\* Test cases were listed page after page up to the empty page, and the
\* loop over their numbers has begun.
C9_Witness ==
    /\ pc = "get_test_case"
    /\ requests # <<>>
    /\ requests[Len(requests)].kind = "list_test_cases"
    /\ requests[Len(requests)].arg > 2
    /\ EmptyPage(requests[Len(requests)])

(***************************************************************************)
(* FairSpec: Spec with the program running on: a single thread that takes  *)
(* its next step whenever it has one.  The expander has a step exactly     *)
(* when a call of it is on the stack (a turn of the loop, a call, a        *)
(* return), so that weak fairness of its steps reads: such a call is not   *)
(* on the stack forever without a step of the expander being taken.        *)
(***************************************************************************)
ExpanderStep ==
    \/ StepLeaf
    \/ StepCall
    \/ RecursionExhausted
    \/ Return
    \/ FinishTestCase

ExpanderHasStep == pc = "expand" /\ stack # <<>>

Expanding == stack # <<>>

FairInit == Fetched(MaxFairLines)

FairSpec ==
    /\ FairInit
    /\ [][Next]_vars
    /\ WF_vars(BeginTestCase)
    /\ WF_vars(PrintJson)
    /\ ([]<>(~ExpanderHasStep) \/ []<><<ExpanderStep>>_vars)

\* The shared step a reference line resolves to.
TargetOf(step) ==
    LET cands == CandidateNames(step)
    IN  cands[Min({k \in 1..Len(cands) :
                      cands[k] \in DOMAIN shared_step_name_map})]

\* The shared steps the lines of a text refer to.
TargetsOf(text) ==
    LET lines == splitlines(text)
    IN  {TargetOf(lines[k]) :
            k \in {j \in 1..Len(lines) :
                      /\ IsReferenceLine(lines[j])
                      /\ ~UnresolvedReference(lines[j])}}

\* The shared steps reached from these in at most n more references.
RECURSIVE ReachedFrom(_, _)
ReachedFrom(names, n) ==
    IF n = 0 THEN names
    ELSE ReachedFrom(
             names \cup UNION {TargetsOf(shared_step_name_map[g]
                                             .human_readable_steps) :
                                  g \in names},
             n - 1)

ReachedFromText(text) ==
    ReachedFrom(TargetsOf(text), Cardinality(DOMAIN shared_step_name_map))

\* The text reaches a shared step that reaches itself.
CyclicFrom(text) ==
    \E g \in ReachedFromText(text) :
        g \in ReachedFromText(shared_step_name_map[g].human_readable_steps)

\* While the expander runs on a block: it never comes to return from a
\* block that reaches a cycle, and it fills the stack on no other block.
C10_Safe ==
    (Expanding /\ (Returning \/ pc = "exhausted")) =>
        (CyclicFrom(stack[1].human_readable_steps) <=> pc = "exhausted")

(***************************************************************************)
(* C10: the expansion of a block whose references form no cycle in the     *)
(* table returns; the expansion of a block that reaches a shared step      *)
(* which refers back to itself, directly or through others, never returns: *)
(* nothing cuts the recursion, which goes on until the stack is full.      *)
(* Every run ends with the result printed or with the stack full; it is    *)
(* the stack full exactly for the blocks that reach a cycle.               *)
(***************************************************************************)
C10_ReturnsIffAcyclic ==
    /\ []C10_Safe
    /\ <>(pc = "done" \/ (pc = "exhausted" /\ Len(stack) = MaxDepth))

\* The stack is full of the two shared steps that refer to each other.
C10_Witness ==
    /\ pc = "exhausted"
    /\ Len(stack) = MaxDepth
    /\ Top.shared_step_name_candidate \in {Loop, Pong}
    /\ Caller.shared_step_name_candidate \in {Loop, Pong}
    /\ Top.shared_step_name_candidate # Caller.shared_step_name_candidate

=============================================================================
